---- MODULE Spec2Model ----
(***************************************************************************)
(* Model of native-hdr.c: the JNI entry point                              *)
(* Java_com_pgeneratorplus_android_hdr_HdrEglHelper_nativeSetBuffersDataSpace *)
(* called by several threads of one process.  The two function-local      *)
(* statics `pfn` and `resolved` are shared, unsynchronised memory; every   *)
(* access to them is one step of the calling thread.  A racing read of     *)
(* `pfn` yields either the value in memory or the value the thread already *)
(* holds from an earlier access in the same call (the compiler may keep it *)
(* in a register).                                                         *)
(***************************************************************************)
EXTENDS Integers, FiniteSets, Sequences, TLC

\* ---- bounds of the model ----
NumThreads == 2
NumSurfaces == 2
MaxCalls == 3

\* ---- program constants ----
NULL == 0
FN_setBuffersDataSpace == 1
BT2020_PQ == 163970048
BT2020_HLG == 155582464
DS_UNKNOWN == 0
RET_NO_WINDOW == -1
RET_UNAVAILABLE == -2
RET_OK == 0
PLATFORM_ERR == -38

Threads == 1..NumThreads
\* jobject surface: NULL or a live Surface (1..NumSurfaces).
ValidSurfaces == 1..NumSurfaces
Surfaces == {NULL} \cup ValidSurfaces
DataSpaces == {BT2020_PQ, BT2020_HLG, DS_UNKNOWN}
\* int32_t values the platform function may return.
SetterResults == {RET_OK, RET_NO_WINDOW, RET_UNAVAILABLE, PLATFORM_ERR}
\* The lines logged while resolving are counted; the per-call diagnostic lines
\* (lines 68, 76, 78) go to the log sink and leave no state behind.
LogMsgs == {"resolved_dlopen", "resolved", "not_available"}

VARIABLES
    resolved,      \* static int resolved
    pfn,           \* static PFN_setBuffersDataSpace pfn
    inDefault,     \* platform: dlsym(RTLD_DEFAULT, name) finds the symbol
    libLoads,      \* platform: dlopen("libnativewindow.so") succeeds
    inLib,         \* platform: dlsym(lib, name) finds the symbol
    libLoaded,     \* the process has loaded libnativewindow.so through dlopen
    refcount,      \* platform: reference count of each native window
    logs,          \* number of lines logged, per message
    aborted,       \* the process died calling through a null pointer
    pc,            \* per thread: position in the function
    surface,       \* per thread: argument surface
    dataSpace,     \* per thread: argument dataSpace
    reg,           \* per thread: value of pfn held from an earlier access ({} = none)
    window,        \* per thread: local ANativeWindow *window
    result,        \* per thread: local int32_t result
    ret,           \* per thread: value returned by the last finished call
    obs,           \* per thread: value of pfn tested at line 62 ({} = not yet)
    acq,           \* per thread: successful acquisitions in this call
    rel,           \* per thread: releases in this call
    inv,           \* per thread: calls made through pfn in this call
    invArgs,       \* per thread: arguments of those calls
    late,          \* per thread: the call began after "not available" was logged
    pre,           \* per thread: the reference count of the surface's window when
                   \* the call began
    found,         \* per thread: a lookup made by the call in its resolve block
                   \* returned the function
    calls,         \* number of calls started
    observed,      \* every value of pfn tested at line 62 so far
    presentAtStart, \* the symbol could be resolved when the process started
    scenario       \* SpecDet: the surface and tag of every call and the result the
                   \* platform function gives for them (unused by Spec)

statics == <<resolved, pfn>>
platform == <<inDefault, libLoads, inLib>>
locals == <<surface, dataSpace, reg, window, result, ret, obs, acq, rel, inv,
            invArgs, late, found, pre>>
history == <<calls, observed, presentAtStart, scenario>>
vars == <<statics, platform, libLoaded, refcount, logs, aborted, pc, locals,
          history>>

\* (int32_t)x : the low 32 bits of x as a signed value, computed on 16-bit halves.
CastInt32(x) ==
    LET lo == x % 65536
        hi == ((x - lo) \div 65536) % 65536
        shi == IF hi >= 32768 THEN hi - 65536 ELSE hi
    IN shi * 65536 + lo

\* The symbol can be resolved by the two-step lookup.
SymbolPresent == inDefault \/ (libLoads /\ inLib)

\* dlsym(RTLD_DEFAULT, "ANativeWindow_setBuffersDataSpace")
DlsymDefault == IF inDefault THEN FN_setBuffersDataSpace ELSE NULL

\* dlsym(lib, "ANativeWindow_setBuffersDataSpace")
DlsymLib == IF inLib THEN FN_setBuffersDataSpace ELSE NULL

\* ANativeWindow_fromSurface(env, s): the window behind a live surface, else NULL.
FromSurface(s) == IF s \in ValidSurfaces THEN s ELSE NULL

\* The values a read of the static pfn by thread t can yield.
ReadPfn(t) == {pfn} \cup reg[t]

Log(m) == [logs EXCEPT ![m] = @ + 1]

\* return v; : the caller receives v and the frame of the call (its arguments
\* and locals) is gone.  The per-call counters stay until the next call.
Return(t, v) ==
    /\ ret' = [ret EXCEPT ![t] = v]
    /\ pc' = [pc EXCEPT ![t] = "done"]
    /\ surface' = [surface EXCEPT ![t] = NULL]
    /\ dataSpace' = [dataSpace EXCEPT ![t] = DS_UNKNOWN]
    /\ window' = [window EXCEPT ![t] = NULL]
    /\ reg' = [reg EXCEPT ![t] = {}]
    /\ invArgs' = [invArgs EXCEPT ![t] = <<>>]

Active(t) == pc[t] \notin {"idle", "done", "crashed"}

\* The process before the first call.
InitProgram ==
    /\ resolved = 0
    /\ pfn = NULL
    /\ inDefault \in BOOLEAN
    /\ libLoads \in BOOLEAN
    /\ inLib \in BOOLEAN
    /\ libLoaded = FALSE
    /\ refcount = [w \in ValidSurfaces |-> 1]
    /\ logs = [m \in LogMsgs |-> 0]
    /\ aborted = FALSE
    /\ pc = [t \in Threads |-> "idle"]
    /\ surface = [t \in Threads |-> NULL]
    /\ dataSpace = [t \in Threads |-> DS_UNKNOWN]
    /\ reg = [t \in Threads |-> {}]
    /\ window = [t \in Threads |-> NULL]
    /\ result = [t \in Threads |-> 0]
    /\ ret = [t \in Threads |-> 0]
    /\ obs = [t \in Threads |-> {}]
    /\ acq = [t \in Threads |-> 0]
    /\ rel = [t \in Threads |-> 0]
    /\ inv = [t \in Threads |-> 0]
    /\ invArgs = [t \in Threads |-> <<>>]
    /\ late = [t \in Threads |-> FALSE]
    /\ found = [t \in Threads |-> FALSE]
    /\ pre = [t \in Threads |-> 0]
    /\ calls = 0
    /\ observed = {}
    /\ presentAtStart = SymbolPresent

Init ==
    /\ InitProgram
    /\ scenario = <<NULL, DS_UNKNOWN, RET_OK>>

\* The platform gains the symbol (a library is loaded by other code, the
\* library becomes loadable): a lookup that failed may later succeed.
PlatformChange ==
    /\ ~aborted
    /\ \/ ~inDefault /\ inDefault' = TRUE /\ UNCHANGED <<libLoads, inLib>>
       \/ ~libLoads /\ libLoads' = TRUE /\ UNCHANGED <<inDefault, inLib>>
       \/ ~inLib /\ inLib' = TRUE /\ UNCHANGED <<inDefault, libLoads>>
    /\ UNCHANGED <<statics, libLoaded, refcount, logs, aborted, pc, locals, history>>

\* A thread enters the function with arguments (s, d).
Call(t, s, d) ==
    /\ ~aborted
    /\ pc[t] \in {"idle", "done"}
    /\ calls < MaxCalls
    /\ calls' = calls + 1
    /\ pc' = [pc EXCEPT ![t] = "L38"]
    /\ surface' = [surface EXCEPT ![t] = s]
    /\ dataSpace' = [dataSpace EXCEPT ![t] = d]
    /\ reg' = [reg EXCEPT ![t] = {}]
    /\ window' = [window EXCEPT ![t] = NULL]
    /\ result' = [result EXCEPT ![t] = 0]
    /\ ret' = [ret EXCEPT ![t] = 0]
    /\ obs' = [obs EXCEPT ![t] = {}]
    /\ acq' = [acq EXCEPT ![t] = 0]
    /\ rel' = [rel EXCEPT ![t] = 0]
    /\ inv' = [inv EXCEPT ![t] = 0]
    /\ invArgs' = [invArgs EXCEPT ![t] = <<>>]
    /\ late' = [late EXCEPT ![t] = (logs["not_available"] > 0)]
    /\ found' = found
    /\ pre' = [pre EXCEPT ![t] = IF s = NULL THEN 0 ELSE refcount[FromSurface(s)]]
    /\ UNCHANGED <<statics, platform, libLoaded, refcount, logs, aborted,
                   observed, presentAtStart, scenario>>

\* line 38: if (!resolved)
L38_TestResolved(t) ==
    /\ ~aborted
    /\ pc[t] = "L38"
    /\ pc' = [pc EXCEPT ![t] = IF resolved = 0 THEN "L39" ELSE "L62"]
    /\ UNCHANGED <<statics, platform, libLoaded, refcount, logs, aborted, locals,
                   history>>

\* Variant of line 39 that forgets to store the flag.
L39_SetResolved_NoStore(t) ==
    /\ ~aborted
    /\ pc[t] = "L39"
    /\ pc' = [pc EXCEPT ![t] = "L41"]
    /\ UNCHANGED <<statics, platform, libLoaded, refcount, logs, aborted, locals,
                   history>>

\* line 39: resolved = 1;
L39_SetResolved(t) ==
    /\ ~aborted
    /\ pc[t] = "L39"
    /\ resolved' = 1
    /\ pc' = [pc EXCEPT ![t] = "L41"]
    /\ UNCHANGED <<pfn, platform, libLoaded, refcount, logs, aborted, locals, history>>

\* Variant of lines 41-42 with a non-static pfn: the result of the lookup stays
\* with the calling thread and is not cached.
L41_LookupDefault_LocalOnly(t) ==
    /\ ~aborted
    /\ pc[t] = "L41"
    /\ reg' = [reg EXCEPT ![t] = {DlsymDefault}]
    /\ found' = [found EXCEPT ![t] = (DlsymDefault # NULL)]
    /\ pc' = [pc EXCEPT ![t] = "L44"]
    /\ UNCHANGED <<statics, platform, libLoaded, refcount, logs, aborted, surface,
                   dataSpace, window, result, ret, obs, acq, rel, inv, invArgs,
                   late, pre, history>>

\* lines 41-42: pfn = dlsym(RTLD_DEFAULT, ...);
L41_LookupDefault(t) ==
    /\ ~aborted
    /\ pc[t] = "L41"
    /\ pfn' = DlsymDefault
    /\ reg' = [reg EXCEPT ![t] = {DlsymDefault}]
    /\ found' = [found EXCEPT ![t] = (DlsymDefault # NULL)]
    /\ pc' = [pc EXCEPT ![t] = "L44"]
    /\ UNCHANGED <<resolved, platform, libLoaded, refcount, logs, aborted, surface,
                   dataSpace, window, result, ret, obs, acq, rel, inv, invArgs,
                   late, pre, calls, observed,
                   presentAtStart, scenario>>

\* line 44: if (!pfn)
L44_TestDefault(t) ==
    /\ ~aborted
    /\ pc[t] = "L44"
    /\ \E v \in ReadPfn(t) :
        /\ reg' = [reg EXCEPT ![t] = {v}]
        /\ pc' = [pc EXCEPT ![t] = IF v = NULL THEN "L45" ELSE "L55"]
    /\ UNCHANGED <<statics, platform, libLoaded, refcount, logs, aborted, surface,
                   dataSpace, window, result, ret, obs, acq, rel, inv, invArgs,
                   late, found, pre, history>>

\* lines 45-46: void *lib = dlopen("libnativewindow.so", RTLD_LAZY); if (lib)
L45_LoadLibrary(t) ==
    /\ ~aborted
    /\ pc[t] = "L45"
    /\ libLoaded' = (libLoaded \/ libLoads)
    /\ pc' = [pc EXCEPT ![t] = IF libLoads THEN "L47" ELSE "L55"]
    /\ UNCHANGED <<statics, platform, refcount, logs, aborted, locals, calls,
                   observed, presentAtStart, scenario>>

\* lines 47-48: pfn = dlsym(lib, ...);
L47_LookupLib(t) ==
    /\ ~aborted
    /\ pc[t] = "L47"
    /\ pfn' = DlsymLib
    /\ reg' = [reg EXCEPT ![t] = {DlsymLib}]
    /\ found' = [found EXCEPT ![t] = (found[t] \/ DlsymLib # NULL)]
    /\ pc' = [pc EXCEPT ![t] = "L49"]
    /\ UNCHANGED <<resolved, platform, libLoaded, refcount, logs, aborted, surface,
                   dataSpace, window, result, ret, obs, acq, rel, inv, invArgs,
                   late, pre, calls, observed,
                   presentAtStart, scenario>>

\* lines 49-51: if (pfn) LOGI("Resolved via dlopen(libnativewindow.so)");
L49_LogDlopen(t) ==
    /\ ~aborted
    /\ pc[t] = "L49"
    /\ \E v \in ReadPfn(t) :
        /\ reg' = [reg EXCEPT ![t] = {v}]
        /\ logs' = IF v # NULL THEN Log("resolved_dlopen") ELSE logs
    /\ pc' = [pc EXCEPT ![t] = "L55"]
    /\ UNCHANGED <<statics, platform, libLoaded, refcount, aborted, surface,
                   dataSpace, window, result, ret, obs, acq, rel, inv, invArgs,
                   late, found, pre, history>>

\* lines 55-59: if (pfn) LOGI("... resolved"); else LOGW("... not available");
L55_LogOutcome(t) ==
    /\ ~aborted
    /\ pc[t] = "L55"
    /\ \E v \in ReadPfn(t) :
        /\ reg' = [reg EXCEPT ![t] = {v}]
        /\ logs' = IF v # NULL THEN Log("resolved") ELSE Log("not_available")
    /\ found' = [found EXCEPT ![t] = FALSE]
    /\ pc' = [pc EXCEPT ![t] = "L62"]
    /\ UNCHANGED <<statics, platform, libLoaded, refcount, aborted, surface,
                   dataSpace, window, result, ret, obs, acq, rel, inv, invArgs,
                   late, pre, history>>

\* Variant of lines 62-64 without the early return.
L62_TestAvailable_FallThrough(t) ==
    /\ ~aborted
    /\ pc[t] = "L62"
    /\ \E v \in ReadPfn(t) :
        /\ obs' = [obs EXCEPT ![t] = {v}]
        /\ observed' = observed \cup {v}
        /\ reg' = [reg EXCEPT ![t] = {v}]
        /\ pc' = [pc EXCEPT ![t] = "L66"]
    /\ UNCHANGED <<statics, platform, libLoaded, refcount, logs, aborted, surface,
                   dataSpace, window, result, ret, acq, rel, inv, invArgs, late, found, pre,
                   calls, presentAtStart, scenario>>

\* lines 62-64: if (!pfn) return -2;
L62_TestAvailable(t) ==
    /\ ~aborted
    /\ pc[t] = "L62"
    /\ \E v \in ReadPfn(t) :
        /\ obs' = [obs EXCEPT ![t] = {v}]
        /\ observed' = observed \cup {v}
        /\ IF v = NULL
           THEN Return(t, RET_UNAVAILABLE)
           ELSE /\ reg' = [reg EXCEPT ![t] = {v}]
                /\ pc' = [pc EXCEPT ![t] = "L66"]
                /\ UNCHANGED <<surface, dataSpace, window, ret, invArgs>>
    /\ UNCHANGED <<statics, platform, libLoaded, refcount, logs, aborted, result,
                   acq, rel, inv, late, found, pre, calls, presentAtStart, scenario>>

\* Variant of lines 66-70 without the null check.
L66_Acquire_NoNullCheck(t) ==
    /\ ~aborted
    /\ pc[t] = "L66"
    /\ LET w == FromSurface(surface[t]) IN
        /\ window' = [window EXCEPT ![t] = w]
        /\ IF w = NULL
           THEN UNCHANGED <<refcount, acq>>
           ELSE /\ refcount' = [refcount EXCEPT ![w] = @ + 1]
                /\ acq' = [acq EXCEPT ![t] = @ + 1]
    /\ pc' = [pc EXCEPT ![t] = "L72"]
    /\ UNCHANGED <<statics, platform, libLoaded, logs, aborted, surface, dataSpace,
                   reg, result, ret, obs, rel, inv, invArgs, late, found, pre, history>>

\* lines 66-70: window = ANativeWindow_fromSurface(env, surface);
\*              if (window == NULL) { LOGW(...); return -1; }
L66_Acquire(t) ==
    /\ ~aborted
    /\ pc[t] = "L66"
    /\ LET w == FromSurface(surface[t]) IN
        IF w = NULL
        THEN /\ Return(t, RET_NO_WINDOW)
             /\ UNCHANGED <<refcount, acq>>
        ELSE /\ window' = [window EXCEPT ![t] = w]
             /\ refcount' = [refcount EXCEPT ![w] = @ + 1]
             /\ acq' = [acq EXCEPT ![t] = @ + 1]
             /\ pc' = [pc EXCEPT ![t] = "L72"]
             /\ UNCHANGED <<surface, dataSpace, reg, ret, invArgs>>
    /\ UNCHANGED <<statics, platform, libLoaded, logs, aborted, result, obs, rel,
                   inv, late, found, pre, history>>

\* Variant of lines 72-73 in the opposite order: the window is released
\* first and the platform function is called on the released handle.
L72_Invoke_AfterRelease(t) ==
    /\ ~aborted
    /\ pc[t] = "L72"
    /\ \E v \in ReadPfn(t) :
        IF v = NULL
        THEN /\ aborted' = TRUE
             /\ pc' = [pc EXCEPT ![t] = "crashed"]
             /\ UNCHANGED <<reg, result, inv, invArgs, refcount, rel>>
        ELSE /\ refcount' = [refcount EXCEPT ![window[t]] = @ - 1]
             /\ rel' = [rel EXCEPT ![t] = @ + 1]
             /\ \E r \in SetterResults : result' = [result EXCEPT ![t] = r]
             /\ reg' = [reg EXCEPT ![t] = {v}]
             /\ inv' = [inv EXCEPT ![t] = @ + 1]
             /\ invArgs' = [invArgs EXCEPT
                            ![t] = Append(@, <<window[t], CastInt32(dataSpace[t])>>)]
             /\ pc' = [pc EXCEPT ![t] = "L75"]
             /\ UNCHANGED aborted
    /\ UNCHANGED <<statics, platform, libLoaded, logs, surface, dataSpace,
                   window, ret, obs, acq, late, found, pre, history>>

\* line 72: int32_t result = pfn(window, (int32_t)dataSpace);
\* A call through a null pointer kills the process.
L72_Invoke(t) ==
    /\ ~aborted
    /\ pc[t] = "L72"
    /\ \E v \in ReadPfn(t) :
        IF v = NULL
        THEN /\ aborted' = TRUE
             /\ pc' = [pc EXCEPT ![t] = "crashed"]
             /\ UNCHANGED <<reg, result, inv, invArgs>>
        ELSE /\ \E r \in SetterResults : result' = [result EXCEPT ![t] = r]
             /\ reg' = [reg EXCEPT ![t] = {v}]
             /\ inv' = [inv EXCEPT ![t] = @ + 1]
             /\ invArgs' = [invArgs EXCEPT
                            ![t] = Append(@, <<window[t], CastInt32(dataSpace[t])>>)]
             /\ pc' = [pc EXCEPT ![t] = "L73"]
             /\ UNCHANGED aborted
    /\ UNCHANGED <<statics, platform, libLoaded, refcount, logs, surface, dataSpace,
                   window, ret, obs, acq, rel, late, found, pre, history>>

\* Variant of line 73 that releases the window only after a successful call.
L73_Release_OnSuccessOnly(t) ==
    /\ ~aborted
    /\ pc[t] = "L73"
    /\ IF result[t] = 0
       THEN /\ refcount' = [refcount EXCEPT ![window[t]] = @ - 1]
            /\ rel' = [rel EXCEPT ![t] = @ + 1]
       ELSE UNCHANGED <<refcount, rel>>
    /\ pc' = [pc EXCEPT ![t] = "L75"]
    /\ UNCHANGED <<statics, platform, libLoaded, logs, aborted, surface, dataSpace,
                   reg, window, result, ret, obs, acq, inv, invArgs, late, found, pre, history>>

\* Variant of line 73 with `window` shared between calls (as a static would
\* be): the release drops the window of whichever call holds one.
L73_Release_SharedWindow(t) ==
    /\ ~aborted
    /\ pc[t] = "L73"
    /\ \E u \in Threads :
        /\ pc[u] \in {"L72", "L73"}
        /\ refcount' = [refcount EXCEPT ![window[u]] = @ - 1]
    /\ rel' = [rel EXCEPT ![t] = @ + 1]
    /\ pc' = [pc EXCEPT ![t] = "L75"]
    /\ UNCHANGED <<statics, platform, libLoaded, logs, aborted, surface, dataSpace,
                   reg, window, result, ret, obs, acq, inv, invArgs, late, found, pre, history>>

\* line 73: ANativeWindow_release(window);
L73_Release(t) ==
    /\ ~aborted
    /\ pc[t] = "L73"
    /\ refcount' = [refcount EXCEPT ![window[t]] = @ - 1]
    /\ rel' = [rel EXCEPT ![t] = @ + 1]
    /\ pc' = [pc EXCEPT ![t] = "L75"]
    /\ UNCHANGED <<statics, platform, libLoaded, logs, aborted, surface, dataSpace,
                   reg, window, result, ret, obs, acq, inv, invArgs, late, found, pre, history>>

\* Variant of lines 75-81 that clears the flag after a failed platform call,
\* so that the next call resolves again.
L75_Return_ResetOnFailure(t) ==
    /\ ~aborted
    /\ pc[t] = "L75"
    /\ Return(t, result[t])
    /\ resolved' = IF result[t] = 0 THEN resolved ELSE 0
    /\ UNCHANGED <<pfn, platform, libLoaded, refcount, logs, aborted, result,
                   obs, acq, rel, inv, late, found, pre, history>>

\* lines 75-81: log the outcome; return result;
L75_Return(t) ==
    /\ ~aborted
    /\ pc[t] = "L75"
    /\ Return(t, result[t])
    /\ UNCHANGED <<statics, platform, libLoaded, refcount, logs, aborted, result,
                   obs, acq, rel, inv, late, found, pre, history>>

Next ==
    \/ PlatformChange
    \/ \E t \in Threads, s \in Surfaces, d \in DataSpaces : Call(t, s, d)
    \/ \E t \in Threads : L38_TestResolved(t)
    \/ \E t \in Threads : L39_SetResolved(t)
    \/ \E t \in Threads : L41_LookupDefault(t)
    \/ \E t \in Threads : L44_TestDefault(t)
    \/ \E t \in Threads : L45_LoadLibrary(t)
    \/ \E t \in Threads : L47_LookupLib(t)
    \/ \E t \in Threads : L49_LogDlopen(t)
    \/ \E t \in Threads : L55_LogOutcome(t)
    \/ \E t \in Threads : L62_TestAvailable(t)
    \/ \E t \in Threads : L66_Acquire(t)
    \/ \E t \in Threads : L72_Invoke(t)
    \/ \E t \in Threads : L73_Release(t)
    \/ \E t \in Threads : L75_Return(t)

Spec == Init /\ [][Next]_vars

\* Calls made one after another: a call begins only when no call is in progress.
CallSeq(t, s, d) ==
    /\ \A u \in Threads : ~Active(u)
    /\ Call(t, s, d)

NextSeq ==
    \/ PlatformChange
    \/ \E t \in Threads, s \in Surfaces, d \in DataSpaces : CallSeq(t, s, d)
    \/ \E t \in Threads : L38_TestResolved(t)
    \/ \E t \in Threads : L39_SetResolved(t)
    \/ \E t \in Threads : L41_LookupDefault(t)
    \/ \E t \in Threads : L44_TestDefault(t)
    \/ \E t \in Threads : L45_LoadLibrary(t)
    \/ \E t \in Threads : L47_LookupLib(t)
    \/ \E t \in Threads : L49_LogDlopen(t)
    \/ \E t \in Threads : L55_LogOutcome(t)
    \/ \E t \in Threads : L62_TestAvailable(t)
    \/ \E t \in Threads : L66_Acquire(t)
    \/ \E t \in Threads : L72_Invoke(t)
    \/ \E t \in Threads : L73_Release(t)
    \/ \E t \in Threads : L75_Return(t)

SpecSeq == Init /\ [][NextSeq]_vars

\* A deterministic platform and a repeated call: symbol presence never changes,
\* every call passes the surface and tag of `scenario`, and the platform
\* function returns the result of `scenario` for them.  Calls are made one
\* after another.
InitDet ==
    /\ InitProgram
    /\ scenario \in Surfaces \X DataSpaces \X SetterResults

CallDet(t) == CallSeq(t, scenario[1], scenario[2])

L72_InvokeDet(t) ==
    /\ L72_Invoke(t)
    /\ pc'[t] = "L73" => result'[t] = scenario[3]

NextDet ==
    \/ \E t \in Threads : CallDet(t)
    \/ \E t \in Threads : L38_TestResolved(t)
    \/ \E t \in Threads : L39_SetResolved(t)
    \/ \E t \in Threads : L41_LookupDefault(t)
    \/ \E t \in Threads : L44_TestDefault(t)
    \/ \E t \in Threads : L45_LoadLibrary(t)
    \/ \E t \in Threads : L47_LookupLib(t)
    \/ \E t \in Threads : L49_LogDlopen(t)
    \/ \E t \in Threads : L55_LogOutcome(t)
    \/ \E t \in Threads : L62_TestAvailable(t)
    \/ \E t \in Threads : L66_Acquire(t)
    \/ \E t \in Threads : L72_InvokeDet(t)
    \/ \E t \in Threads : L73_Release(t)
    \/ \E t \in Threads : L75_Return(t)

SpecDet == InitDet /\ [][NextDet]_vars

\* Positions inside the block `if (!resolved) { ... }` of lines 38-60.
ResolveBlock == {"L39", "L41", "L44", "L45", "L47", "L49", "L55"}

\* Positions at which a call holds a reference it acquired at line 66.
Holding == {"L72", "L73", "crashed"}

(***************************************************************************)
(* Properties                                                              *)
(***************************************************************************)

\* C1: on a platform where the symbol is present from the start, all threads
\* observe the same resolver outcome: no call returns through the
\* "unavailable" branch (line 63) while another call invokes the platform setter.
C1_SameTerminalState ==
    presentAtStart =>
        \A t1, t2 \in Threads :
            ~(pc[t1] = "done" /\ obs[t1] = {NULL} /\ inv[t2] > 0)

\* C2: the resolver state (resolved, pfn) is written once: after any call has
\* tested pfn at line 62, neither static is ever changed again.
C2_WrittenOnce ==
    [][observed # {} => (resolved' = resolved /\ pfn' = pfn)]_vars

\* C3: the dispatcher never aborts the process: no call reaches the invocation
\* of line 72 with a null function pointer.
C3_NeverCallsNull == \A t \in Threads : pc[t] # "crashed"

\* C4: the returned status tells whether the setter ran: -2 and -1 mean it was
\* not invoked on this call, any other value means it was invoked exactly once.
C4_StatusDeterminesInvocation ==
    \A t \in Threads :
        pc[t] = "done" =>
            /\ ret[t] \in {RET_UNAVAILABLE, RET_NO_WINDOW} => inv[t] = 0
            /\ ret[t] \notin {RET_UNAVAILABLE, RET_NO_WINDOW} => inv[t] = 1

\* C5: a call that has returned released exactly what it acquired (once if the
\* acquisition gave a window, never if it gave NULL), for every setter result;
\* so each window's reference count is its initial value plus the references
\* held by calls still between acquire and release.
C5_PairedRelease ==
    /\ \A t \in Threads :
        pc[t] = "done" => (acq[t] \in {0, 1} /\ rel[t] = acq[t])
    /\ \A w \in ValidSurfaces :
        refcount[w] =
            1 + Cardinality({t \in Threads : pc[t] \in Holding /\ window[t] = w})

\* C5 witness: a call acquired a window, the setter returned non-zero, and the
\* call has returned after one release.
C5_Witness ==
    \E t \in Threads :
        pc[t] = "done" /\ acq[t] = 1 /\ rel[t] = 1 /\ inv[t] = 1 /\ ret[t] # 0

\* C6: when calls are made one after another, symbol lookup work (lines 39-59)
\* happens only during the first call.
C6_LookupOnlyInFirstCall ==
    \A t \in Threads : pc[t] \in ResolveBlock => calls = 1

\* C6 witness: a second call has run to completion after the first resolved.
C6_Witness ==
    /\ calls >= 2
    /\ resolved = 1
    /\ \A t \in Threads : ~Active(t)
    /\ \E t \in Threads : pc[t] = "done"

\* C7: once resolution has reported the symbol as not available, every call
\* that begins afterwards returns -2 and does no lookup, even if the symbol has
\* become present meanwhile.
C7_OneShotUnavailable ==
    \A t \in Threads :
        late[t] =>
            /\ pc[t] \notin ResolveBlock
            /\ pc[t] = "done" => ret[t] = RET_UNAVAILABLE

\* C8: a call that finds the resolver outcome "unavailable" at line 62 returns
\* -2 without acquiring a window, invoking the setter or releasing anything.
C8_UnavailableTouchesNothing ==
    \A t \in Threads :
        (pc[t] = "done" /\ obs[t] = {NULL}) =>
            /\ ret[t] = RET_UNAVAILABLE
            /\ acq[t] = 0
            /\ inv[t] = 0
            /\ rel[t] = 0

\* C8 witness: a call has returned through the unavailable branch.
C8_Witness ==
    \E t \in Threads :
        pc[t] = "done" /\ obs[t] = {NULL} /\ ret[t] = RET_UNAVAILABLE

\* C9: a call that found the symbol available and whose acquisition returned
\* NULL returns -1 without invoking the setter (and releases nothing).
C9_NullWindowReturnsMinusOne ==
    \A t \in Threads :
        (pc[t] = "done" /\ obs[t] = {FN_setBuffersDataSpace} /\ acq[t] = 0) =>
            /\ ret[t] = RET_NO_WINDOW
            /\ inv[t] = 0
            /\ rel[t] = 0

\* C9 witness: a call passed the availability test, got no window and returned.
C9_Witness ==
    \E t \in Threads :
        /\ pc[t] = "done"
        /\ obs[t] = {FN_setBuffersDataSpace}
        /\ acq[t] = 0
        /\ ret[t] = RET_NO_WINDOW

\* C10: a call that found the symbol available and acquired a window invokes
\* the resolved function exactly once, with that window and the caller's tag
\* unchanged, and returns the function's result verbatim.
C10_InvokedOnceVerbatim ==
    \A t \in Threads :
        (obs[t] = {FN_setBuffersDataSpace} /\ acq[t] = 1 /\ pc[t] # "L72") =>
            /\ inv[t] = 1
            /\ pc[t] \in {"L73", "L75"} =>
                   invArgs[t] = << <<window[t], dataSpace[t]>> >>
            /\ pc[t] = "done" => ret[t] = result[t]

\* The resolver is in a terminal state: the flag is set and no call is inside
\* the resolve block.
Terminal == resolved = 1 /\ \A t \in Threads : pc[t] \notin ResolveBlock

\* C11: once the resolver is terminal, no step of any call changes the flag or
\* the cached pointer, and a call that returns a failure status (-1 or a
\* non-zero platform code) has released what it acquired, leaving every
\* window's reference count at its initial value plus the references held by
\* calls still in flight.
C11_FailedCallLeavesNoTrace ==
    [][Terminal =>
        /\ resolved' = resolved
        /\ pfn' = pfn
        /\ \A t \in Threads :
            (pc[t] # "done" /\ pc'[t] = "done" /\ ret'[t] # RET_OK) =>
                /\ rel'[t] = acq'[t]
                /\ \A w \in ValidSurfaces :
                    refcount'[w] = 1 + Cardinality(
                        {u \in Threads : pc'[u] \in Holding /\ window'[u] = w})]_vars

\* C11 witness: with the resolver terminal and the symbol available, every call
\* that has returned failed, at least two calls were made, none is in progress
\* and the reference counts are back at their initial value.
C11_Witness ==
    /\ Terminal
    /\ pfn = FN_setBuffersDataSpace
    /\ calls >= 2
    /\ \A t \in Threads : pc[t] = "done" /\ obs[t] = {pfn} /\ ret[t] # RET_OK
    /\ \A w \in ValidSurfaces : refcount[w] = 1

\* C12: on a platform that lacks the symbol, the "not available" warning is
\* logged exactly once: never more than once, once as soon as all calls made
\* have returned, and every call returns -2.
C12_WarnedExactlyOnce ==
    ~SymbolPresent =>
        /\ logs["not_available"] <= 1
        /\ \A t \in Threads : pc[t] = "done" => ret[t] = RET_UNAVAILABLE
        /\ (calls > 0 /\ \A t \in Threads : ~Active(t)) =>
               logs["not_available"] = 1

\* C13: calls on different surfaces are independent with respect to handles:
\* the references on a surface's window are held exactly by the calls in
\* flight on that surface (each call releases only what it acquired), two
\* calls on different surfaces never hold the same handle, and once all calls
\* have returned every reference count is back at its initial value.
C13_IndependentHandles ==
    /\ \A w \in ValidSurfaces :
        refcount[w] =
            1 + Cardinality({t \in Threads : pc[t] \in Holding /\ surface[t] = w})
    /\ \A t1, t2 \in Threads :
        (/\ t1 # t2
         /\ pc[t1] \in Holding
         /\ pc[t2] \in Holding
         /\ surface[t1] # surface[t2]) => window[t1] # window[t2]
    /\ (\A t \in Threads : pc[t] \in {"idle", "done"}) =>
           \A w \in ValidSurfaces : refcount[w] = 1

\* C13 witness: two calls on different surfaces are both between acquire and
\* release, one of them already past its invocation.
C13_Witness ==
    \E t1, t2 \in Threads :
        /\ pc[t1] = "L72"
        /\ pc[t2] = "L73"
        /\ surface[t1] # surface[t2]
        /\ refcount[window[t1]] = 2
        /\ refcount[window[t2]] = 2

\* C14: on a deterministic platform, calls repeated one after another with the
\* same surface and tag all return the same status and all have the same
\* acquire/release balance, zero net references, the first (resolving) call
\* included.
C14_RepeatableStatus ==
    /\ \A t1, t2 \in Threads :
        (pc[t1] = "done" /\ pc[t2] = "done") =>
            /\ ret[t1] = ret[t2]
            /\ acq[t1] = acq[t2]
            /\ rel[t1] = rel[t2]
            /\ rel[t1] = acq[t1]
    /\ (\A t \in Threads : ~Active(t)) => \A w \in ValidSurfaces : refcount[w] = 1

\* C14 witness: exactly two calls were made, by different threads, and both
\* have returned: the resolving first call and its repetition; the call went
\* as far as the platform function, which failed.
C14_Witness ==
    /\ calls = 2
    /\ \E t1, t2 \in Threads :
        /\ t1 # t2
        /\ pc[t1] = "done"
        /\ pc[t2] = "done"
        /\ inv[t1] = 1
        /\ inv[t2] = 1
        /\ ret[t1] = scenario[3]
        /\ ret[t2] # RET_OK

\* The next statement of the call that thread t is executing.
ThreadStep(t) ==
    \/ L38_TestResolved(t)
    \/ L39_SetResolved(t)
    \/ L41_LookupDefault(t)
    \/ L44_TestDefault(t)
    \/ L45_LoadLibrary(t)
    \/ L47_LookupLib(t)
    \/ L49_LogDlopen(t)
    \/ L55_LogOutcome(t)
    \/ L62_TestAvailable(t)
    \/ L66_Acquire(t)
    \/ L72_Invoke(t)
    \/ L73_Release(t)
    \/ L75_Return(t)

\* C15: every call runs to completion: a call that has begun and has not yet
\* returned can always execute its next statement, whatever the other threads
\* are doing.
C15_EveryCallReturns ==
    \A t \in Threads : pc[t] \notin {"idle", "done"} => ENABLED ThreadStep(t)

\* C16: resolution follows the two-step order.  The default-scope lookup comes
\* first; a call loads the library only if its default-scope lookup failed; it
\* looks the symbol up in the library only if the load succeeded; and the
\* outcome it ends the block with is "available" exactly if one of its lookups
\* returned the function (a function the call did not find itself can only
\* have been stored by the lookup of another call).
C16_TwoStepOrder ==
    [][\A t \in Threads :
        /\ pc[t] = "L39" => pc'[t] \in {"L39", "L41"}
        /\ (pc[t] # "L45" /\ pc'[t] = "L45") => (pc[t] = "L44" /\ ~found[t])
        /\ (pc[t] # "L47" /\ pc'[t] = "L47") => (pc[t] = "L45" /\ libLoaded')
        /\ (pc[t] = "L45" /\ pc'[t] = "L55") => ~libLoads
        /\ (pc[t] = "L55" /\ pc'[t] = "L62") =>
               /\ found[t] => reg'[t] # {NULL}
               /\ (reg'[t] # {NULL} /\ calls = 1) => found[t]]_vars

\* The events of one step of thread t's call.
Acquires(t) == acq'[t] > acq[t]
Invokes(t) == inv'[t] > inv[t]
Releases(t) == rel'[t] > rel[t]
Returns(t) == pc[t] # "done" /\ pc'[t] = "done"

\* The order of the events within a call: the availability test, then the
\* acquire, then the invocation, then the release, then the return.
EventOrder(t) ==
    /\ Acquires(t) =>
           /\ obs[t] = {FN_setBuffersDataSpace}
           /\ acq[t] = 0 /\ inv[t] = 0 /\ rel[t] = 0
    /\ Invokes(t) =>
           /\ acq[t] = 1 /\ inv[t] = 0
           /\ rel[t] = 0 /\ rel'[t] = 0
           /\ window[t] \in ValidSurfaces /\ window'[t] = window[t]
    /\ Releases(t) => (inv[t] = 1 /\ rel[t] = 0 /\ ~Returns(t))
    /\ Returns(t) => (rel[t] = acq[t] /\ inv[t] = acq[t])

\* C17: within each call the events are ordered, and during the invocation
\* the reference count of the handle is above the value it had before the
\* call.
C17_InvokedAbovePreCallCount ==
    [][\A t \in Threads :
        /\ EventOrder(t)
        /\ Invokes(t) =>
               /\ refcount[window[t]] > pre[t]
               /\ refcount'[window[t]] > pre[t]]_vars

\* C17 as amended: within each call the events are ordered, and during the
\* invocation the reference count of the handle includes the reference the
\* call acquired: it is above the count of the idle surface plus the
\* references held by the other calls in flight.
C17_InvokedHoldingOwnReference ==
    [][\A t \in Threads :
        /\ EventOrder(t)
        /\ Invokes(t) =>
               LET others == {u \in Threads \ {t} :
                                 pc[u] \in Holding /\ window[u] = window[t]}
               IN /\ refcount[window[t]] = 2 + Cardinality(others)
                  /\ refcount'[window[t]] = 2 + Cardinality(others)]_vars

\* C17 witness: a call has invoked the platform function and not yet released
\* its handle, on a surface that another call was holding when this call
\* began and has released since: the count equals its pre-call value.
C17_Witness ==
    \E t \in Threads :
        /\ pc[t] = "L73"
        /\ inv[t] = 1
        /\ rel[t] = 0
        /\ pre[t] = 2
        /\ refcount[window[t]] = 2

====
